---- MODULE Spec2Model ----
(***************************************************************************)
(* Logging core of polter-rnd/plaincloud.                                  *)
(*                                                                         *)
(* Two versions of the design live in the source tree and cannot be part   *)
(* of the same program (both declare PlainCloud::Log::Level):              *)
(*   - the legacy Logger of include/log/logger.h (one object, own sinks),  *)
(*   - the SinkDriver of log/sink.h (single-threaded driver, and the       *)
(*     multi-threaded driver that wraps it behind a reader/writer lock).   *)
(* The variable `version` says which one the program was built with.       *)
(*                                                                         *)
(* Sink of log/sink.h owns a Pattern (pattern.h, not part of the tree that *)
(* was examined: compiler and renderer follow the design description), and *)
(* OStreamSink of log/sinks/ostream_sink.h writes rendered records to a    *)
(* stream.                                                                 *)
(***************************************************************************)
EXTENDS Integers, Sequences, FiniteSets, TLC

VARIABLES
    version,    \* "Logger" (logger.h) or "SinkDriver" (sink.h)
    m_sinks,    \* node -> (sink -> enabled flag), the unordered_map of each node
    m_level,    \* node -> severity threshold
    effective,  \* node -> (sink -> owning node), the cached effective sink set
    buffer,     \* the format buffer handed to producers and sinks
    call,       \* the last completed operation and its arguments
    ret,        \* the boolean result of the last completed operation
    em,         \* what the last emission did (producer calls, deliveries, ...)
    pc,         \* thread -> position inside the operation it is running
    th,         \* thread -> arguments and locals of the operation it is running
    lock,       \* node -> the reader/writer mutex of its multi-threaded driver
    m_pattern,  \* the Pattern owned by the sink under study: tokens and level names
    m_ostream,  \* the destination of the stream sink: the writes and flushes it got
    scall       \* the last operation called on the sink, its arguments and result

vars == <<version, m_sinks, m_level, effective, buffer, call, ret, em, pc, th, lock,
          m_pattern, m_ostream, scall>>
mtVars == <<pc, th, lock>>
sinkVars == <<m_pattern, m_ostream, scall>>

----------------------------------------------------------------------------
\* enum class Level { Fatal, Error, Warning, Info, Debug, Trace }
Fatal == 0
Error == 1
Warning == 2
Info == 3
Debug == 4
Trace == 5

\* Bounds of the model.
NumNodes == 3        \* logger nodes of the tree
NumSinks == 2        \* distinct sink objects
NumThreads == 2      \* threads using the multi-threaded driver
MaxBuf == 2          \* tokens a buffer may hold before a producer is refused

Nodes == 1..NumNodes
Loggers == {1, 2}    \* a root and its child: the nodes messages are logged at
Sinks == 1..NumSinks
Threads == 1..NumThreads

\* Inputs the operations are exercised with.
ThresholdInputs == {Warning, Info}
MessageLevels == {Error, Info, Debug}
ProducerKinds == {"writer", "value", "plain"}
\* The sinks whose message() throws during a call: none, or one of them.
FailingInputs == {{}} \cup {{s} : s \in Sinks}

\* The tree edges fixed at construction: nodes 2 and 3 hang under the root 1,
\* node 4 under node 2, every further node under the root (0 stands for "no
\* parent").  Nodes 2 and 3 are siblings: neither is an ancestor of the other.
Parent(n) == IF n = 1 THEN 0 ELSE IF n = 4 THEN 2 ELSE 1

RECURSIVE ChildrenFrom(_, _)
ChildrenFrom(n, c) ==
    IF c \notin Nodes THEN <<>>
    ELSE IF Parent(c) = n THEN <<c>> \o ChildrenFrom(n, c + 1)
    ELSE ChildrenFrom(n, c + 1)

ChildrenTable == [n \in Nodes |-> ChildrenFrom(n, 2)]

\* No child is visited: a change stays with the node it was made on.
ChildrenSeqNone(n) == <<>>

ChildrenSeq(n) == ChildrenTable[n]

EmptyMap == [x \in {} |-> TRUE]

NoCall == [op |-> "none"]
NoLevels == [l \in {} |-> <<>>]
NoPattern == [source |-> <<>>, tokens |-> <<>>, levels |-> NoLevels]
NoStream == [writes |-> <<>>, flushes |-> 0]
Idle == [op |-> "none"]
Unlocked == [writer |-> 0, readers |-> {}]
NoEmission == [calls |-> 0, delivered |-> [s \in Sinks |-> <<>>],
               invoked |-> [s \in Sinks |-> 0], resets |-> 0,
               raised |-> FALSE, failed |-> FALSE]

----------------------------------------------------------------------------
\* std::unordered_map primitives used by the drivers.

\* The result of the insertion is reported as true whatever happened.
InsertedAlways(m, s) == TRUE

\* insert_or_assign(key, value).second: true iff the key was inserted.
Inserted(m, s) == s \notin DOMAIN m

insert_or_assign(m, s, v) ==
    [x \in (DOMAIN m) \cup {s} |-> IF x = s THEN v ELSE m[x]]

\* erase(key) == 1: true iff an element was removed.
Erased(m, s) == s \in DOMAIN m

erase(m, s) == [x \in (DOMAIN m) \ {s} |-> m[x]]

\* The early return on the level is missing.
AdmitsAll(threshold, level) == TRUE

\* Level admission of SinkDriver::message: the call returns early when
\* logger.m_level < level.
Admits(threshold, level) == ~(threshold < level)

\* A level equal to the threshold is refused.
LoggerAdmitsStrict(threshold, level) == threshold > level

\* Level admission of the legacy Logger::emit: m_level >= level.
LoggerAdmits(threshold, level) == threshold >= level

----------------------------------------------------------------------------
\* Effective sink set: own enabled sinks (mapped to the node itself) laid
\* over the parent's effective set.
Recomputed(ms, eff, n) ==
    LET par == IF Parent(n) = 0 THEN EmptyMap ELSE eff[Parent(n)]
        own == {s \in DOMAIN ms[n] : ms[n][s]}
    IN  [s \in (DOMAIN par) \cup own |-> IF s \in own THEN n ELSE par[s]]

\* Recompute the nodes of `todo` in order; a node whose set changed puts its
\* children in front of the remaining work.
RECURSIVE update_effective_sinks(_, _, _)
update_effective_sinks(ms, eff, todo) ==
    IF todo = <<>> THEN eff
    ELSE LET n == Head(todo)
             new == Recomputed(ms, eff, n)
         IN  IF new = eff[n]
             THEN update_effective_sinks(ms, eff, Tail(todo))
             ELSE update_effective_sinks(ms, [eff EXCEPT ![n] = new],
                                         ChildrenSeq(n) \o Tail(todo))

----------------------------------------------------------------------------
\* Message producers.  kind: a callable writing into the supplied buffer
\* ("writer"), a callable returning a value ("value"), or a plain value
\* ("plain").  throws: the producer raises a formatting error when invoked;
\* partial: it has appended part of its output to the buffer before raising.
Producers ==
    {p \in [kind : ProducerKinds, throws : BOOLEAN, partial : BOOLEAN] :
        /\ p.throws => p.kind # "plain"
        /\ p.partial => (p.throws /\ p.kind = "writer")}

\* What a producer leaves in the buffer or returns: the caller and the number
\* of the invocation within the call (0: the part written before raising).
Token(t, k) == <<t, k>>

\* The iteration may present a key twice and leave another out.
OrdersRepeating(S) == [1..Cardinality(S) -> S]

\* The iteration orders an unordered_map may present its keys in.
Orders(S) ==
    {q \in [1..Cardinality(S) -> S] :
        \A i, j \in 1..Cardinality(S) : q[i] = q[j] => i = j}

\* One pass of the loop body of SinkDriver<SingleThreadedPolicy>::message for
\* an enabled sink s: invoke the callback, hand the result to the sink, reset
\* the buffer.  The message() of a sink of `bad` throws: the exception leaves
\* the loop, the statements after the call are not reached.
DriverServe(st, s, p, t, bad) ==
    IF p.kind = "plain"
    THEN IF s \in bad
         THEN [st EXCEPT !.failed = TRUE, !.invoked[s] = @ + 1]
         ELSE [st EXCEPT !.delivered[s] = Append(@, <<Token(t, 1)>>),
                         !.invoked[s] = @ + 1,
                         !.buf = <<>>,
                         !.resets = @ + 1]
    ELSE IF p.throws
    THEN [st EXCEPT !.calls = @ + 1,
                    !.raised = TRUE,
                    !.buf = IF p.partial THEN Append(@, Token(t, 0)) ELSE @]
    ELSE IF p.kind = "writer"
    THEN IF s \in bad
         THEN [st EXCEPT !.calls = @ + 1,
                         !.failed = TRUE,
                         !.invoked[s] = @ + 1,
                         !.buf = Append(@, Token(t, st.calls + 1))]
         ELSE [st EXCEPT !.calls = @ + 1,
                         !.delivered[s] = Append(@, Append(st.buf, Token(t, st.calls + 1))),
                         !.invoked[s] = @ + 1,
                         !.buf = <<>>,
                         !.resets = @ + 1]
    ELSE IF s \in bad
         THEN [st EXCEPT !.calls = @ + 1, !.failed = TRUE, !.invoked[s] = @ + 1]
         ELSE [st EXCEPT !.calls = @ + 1,
                         !.delivered[s] = Append(@, <<Token(t, st.calls + 1)>>),
                         !.invoked[s] = @ + 1,
                         !.buf = <<>>,
                         !.resets = @ + 1]

\* The enabled flag of the entry is not consulted.
EnabledIgnored(ms, s) == TRUE

\* if (sink.second)
Enabled(ms, s) == ms[s]

\* for (const auto& sink : m_sinks) { if (sink.second) { ... } }
RECURSIVE DriverLoop(_, _, _, _, _, _)
DriverLoop(order, ms, p, t, bad, st) ==
    IF order = <<>> \/ st.raised \/ st.failed THEN st
    ELSE LET s == Head(order)
         IN  IF Enabled(ms, s)
             THEN DriverLoop(Tail(order), ms, p, t, bad, DriverServe(st, s, p, t, bad))
             ELSE DriverLoop(Tail(order), ms, p, t, bad, st)

\* The locals of an emission before its loop.
EmissionStart(buf) ==
    [calls |-> 0, delivered |-> [s \in Sinks |-> <<>>],
     invoked |-> [s \in Sinks |-> 0], resets |-> 0,
     raised |-> FALSE, failed |-> FALSE, buf |-> buf]

\* SinkDriver<SingleThreadedPolicy>::message(buffer, logger, level, callback, ...)
DriverMessage(order, ms, threshold, level, p, t, bad, buf) ==
    IF ~Admits(threshold, level) THEN EmissionStart(buf)
    ELSE DriverLoop(order, ms, p, t, bad, EmissionStart(buf))

\* A sink whose message() failed is handed the record a second time.
LoggerServeRetrying(st, s, p, t, bad) ==
    IF p.kind = "plain"
    THEN IF s \in bad
         THEN [st EXCEPT !.failed = TRUE, !.invoked[s] = @ + 2]
         ELSE [st EXCEPT !.delivered[s] = Append(@, <<Token(t, 1)>>),
                         !.invoked[s] = @ + 1]
    ELSE IF p.throws
    THEN [st EXCEPT !.calls = @ + 1, !.raised = TRUE]
    ELSE IF s \in bad
         THEN [st EXCEPT !.calls = @ + 1, !.failed = TRUE, !.invoked[s] = @ + 2]
         ELSE [st EXCEPT !.calls = @ + 1,
                         !.delivered[s] = Append(@, <<Token(t, st.calls + 1)>>),
                         !.invoked[s] = @ + 1]

\* Loop body of the legacy Logger::emit: the level test is made per sink, the
\* enabled flag is not consulted, the callback is invoked for the sink.
LoggerServe(st, s, p, t, bad) ==
    IF p.kind = "plain"
    THEN IF s \in bad
         THEN [st EXCEPT !.failed = TRUE, !.invoked[s] = @ + 1]
         ELSE [st EXCEPT !.delivered[s] = Append(@, <<Token(t, 1)>>),
                         !.invoked[s] = @ + 1]
    ELSE IF p.throws
    THEN [st EXCEPT !.calls = @ + 1, !.raised = TRUE]
    ELSE IF s \in bad
         THEN [st EXCEPT !.calls = @ + 1, !.failed = TRUE, !.invoked[s] = @ + 1]
         ELSE [st EXCEPT !.calls = @ + 1,
                         !.delivered[s] = Append(@, <<Token(t, st.calls + 1)>>),
                         !.invoked[s] = @ + 1]

RECURSIVE LoggerLoop(_, _, _, _, _, _, _)
LoggerLoop(order, threshold, level, p, t, bad, st) ==
    IF order = <<>> \/ st.raised \/ st.failed THEN st
    ELSE IF LoggerAdmits(threshold, level)
         THEN LoggerLoop(Tail(order), threshold, level, p, t, bad,
                         LoggerServe(st, Head(order), p, t, bad))
         ELSE LoggerLoop(Tail(order), threshold, level, p, t, bad, st)

\* Logger::emit(level, callback, location, args...)
LoggerEmitResult(order, threshold, level, p, t, bad, buf) ==
    LoggerLoop(order, threshold, level, p, t, bad, EmissionStart(buf))

Outcome(st) == [calls |-> st.calls, delivered |-> st.delivered,
                invoked |-> st.invoked,
                resets |-> st.resets, raised |-> st.raised, failed |-> st.failed]

----------------------------------------------------------------------------
\* Changes of the sink map of a node (SinkDriver<SingleThreadedPolicy>), each
\* followed by the recomputation of the effective sets below the node.
add_sink(n, s) ==
    LET ms == [m_sinks EXCEPT ![n] = insert_or_assign(@, s, TRUE)]
    IN  /\ m_sinks' = ms
        /\ effective' = update_effective_sinks(ms, effective, <<n>>)

remove_sink(n, s) ==
    LET ms == [m_sinks EXCEPT ![n] = erase(@, s)]
    IN  /\ m_sinks' = ms
        /\ effective' = update_effective_sinks(ms, effective, <<n>>)

\* The flag is stored with operator[]-like insertion instead of find().
set_sink_enabled_inserting(n, s, b) ==
    LET ms == [m_sinks EXCEPT ![n] = insert_or_assign(@, s, b)]
    IN  /\ m_sinks' = ms
        /\ effective' = update_effective_sinks(ms, effective, <<n>>)

\* The flag is kept with the sink: every node that holds it sees the change.
set_sink_enabled_shared(n, s, b) ==
    LET ms == [k \in Nodes |->
                  IF s \in DOMAIN m_sinks[k] /\ s \in DOMAIN m_sinks[n]
                  THEN [m_sinks[k] EXCEPT ![s] = b] ELSE m_sinks[k]]
    IN  /\ m_sinks' = ms
        /\ effective' = update_effective_sinks(ms, effective, <<n>>)

set_sink_enabled(n, s, b) ==
    LET ms == [m_sinks EXCEPT ![n] =
                  IF s \in DOMAIN @ THEN [@ EXCEPT ![s] = b] ELSE @]
    IN  /\ m_sinks' = ms
        /\ effective' = update_effective_sinks(ms, effective, <<n>>)

sink_enabled(m, s) == IF s \in DOMAIN m THEN m[s] ELSE FALSE

\* The calling thread of the unsynchronized drivers.
MainThread == 1

----------------------------------------------------------------------------
\* Operations of the single-threaded driver, with their results.
AddSink(n, s) ==
    /\ call = NoCall
    /\ version = "SinkDriver"
    /\ add_sink(n, s)
    /\ ret' = Inserted(m_sinks[n], s)
    /\ call' = [op |-> "add_sink", node |-> n, sink |-> s]
    /\ em' = NoEmission
    /\ UNCHANGED <<sinkVars, version, m_level, buffer, mtVars>>

RemoveSink(n, s) ==
    /\ call = NoCall
    /\ version = "SinkDriver"
    /\ remove_sink(n, s)
    /\ ret' = Erased(m_sinks[n], s)
    /\ call' = [op |-> "remove_sink", node |-> n, sink |-> s]
    /\ em' = NoEmission
    /\ UNCHANGED <<sinkVars, version, m_level, buffer, mtVars>>

SetSinkEnabled(n, s, b) ==
    /\ call = NoCall
    /\ version = "SinkDriver"
    /\ set_sink_enabled(n, s, b)
    /\ ret' = (s \in DOMAIN m_sinks[n])
    /\ call' = [op |-> "set_sink_enabled", node |-> n, sink |-> s, enabled |-> b]
    /\ em' = NoEmission
    /\ UNCHANGED <<sinkVars, version, m_level, buffer, mtVars>>

SinkEnabled(n, s) ==
    /\ call = NoCall
    /\ version = "SinkDriver"
    /\ ret' = sink_enabled(m_sinks[n], s)
    /\ call' = [op |-> "sink_enabled", node |-> n, sink |-> s]
    /\ em' = NoEmission
    /\ UNCHANGED <<sinkVars, version, m_sinks, m_level, effective, buffer, mtVars>>

\* Logger::set_level
SetLevel(n, l) ==
    /\ call = NoCall
    /\ m_level' = [m_level EXCEPT ![n] = l]
    /\ ret' = FALSE
    /\ call' = [op |-> "set_level", node |-> n, level |-> l]
    /\ em' = NoEmission
    /\ UNCHANGED <<sinkVars, version, m_sinks, effective, buffer, mtVars>>

Message(n, level, p, bad) ==
    /\ call = NoCall
    /\ version = "SinkDriver"
    /\ Len(buffer) < MaxBuf
    /\ \E order \in Orders(DOMAIN m_sinks[n]) :
          LET st == DriverMessage(order, m_sinks[n], m_level[n], level, p,
                                  MainThread, bad, buffer)
          IN  /\ em' = Outcome(st)
              /\ buffer' = st.buf
    /\ ret' = FALSE
    /\ call' = [op |-> "message", node |-> n, level |-> level, producer |-> p,
                failing |-> bad]
    /\ UNCHANGED <<sinkVars, version, m_sinks, m_level, effective, mtVars>>

\* The caller has looked at the result and goes on.
Return ==
    /\ call # NoCall
    /\ call' = NoCall
    /\ ret' = FALSE
    /\ em' = NoEmission
    /\ UNCHANGED <<sinkVars, version, m_sinks, m_level, effective, buffer, mtVars>>

----------------------------------------------------------------------------
\* Operations of the legacy Logger (one object, kept at node 1).
LoggerNode == 1

LoggerAddSink(s) ==
    /\ call = NoCall
    /\ version = "Logger"
    /\ m_sinks' = [m_sinks EXCEPT ![LoggerNode] = insert_or_assign(@, s, FALSE)]
    /\ ret' = Inserted(m_sinks[LoggerNode], s)
    /\ call' = [op |-> "add_sink", node |-> LoggerNode, sink |-> s]
    /\ em' = NoEmission
    /\ UNCHANGED <<sinkVars, version, m_level, effective, buffer, mtVars>>

LoggerRemoveSink(s) ==
    /\ call = NoCall
    /\ version = "Logger"
    /\ m_sinks' = [m_sinks EXCEPT ![LoggerNode] = erase(@, s)]
    /\ ret' = Erased(m_sinks[LoggerNode], s)
    /\ call' = [op |-> "remove_sink", node |-> LoggerNode, sink |-> s]
    /\ em' = NoEmission
    /\ UNCHANGED <<sinkVars, version, m_level, effective, buffer, mtVars>>

LoggerEmit(level, p, bad) ==
    /\ call = NoCall
    /\ version = "Logger"
    /\ p.kind # "writer"
    /\ \E order \in Orders(DOMAIN m_sinks[LoggerNode]) :
          em' = Outcome(LoggerEmitResult(order, m_level[LoggerNode], level, p,
                                         MainThread, bad, buffer))
    /\ ret' = FALSE
    /\ call' = [op |-> "message", node |-> LoggerNode, level |-> level, producer |-> p,
                failing |-> bad]
    /\ UNCHANGED <<sinkVars, version, m_sinks, m_level, effective, buffer, mtVars>>

----------------------------------------------------------------------------
\* Unsynchronized use: one thread calls the operations one after another.
InitCore ==
    /\ m_level = [n \in Nodes |-> Info]
    /\ buffer = <<>>
    /\ call = NoCall
    /\ ret = FALSE
    /\ em = NoEmission
    /\ pc = [t \in Threads |-> "idle"]
    /\ th = [t \in Threads |-> Idle]
    /\ lock = [n \in Nodes |-> Unlocked]
    /\ m_ostream = NoStream
    /\ scall = NoCall

InitCommon ==
    /\ InitCore
    /\ effective = [n \in Nodes |-> EmptyMap]
    /\ m_pattern = NoPattern

Init ==
    /\ InitCommon
    /\ \/ /\ version = "SinkDriver"
          /\ m_sinks = [n \in Nodes |-> EmptyMap]
       \/ /\ version = "Logger"
          /\ \E init \in SUBSET Sinks :
                m_sinks = [n \in Nodes |->
                              IF n = LoggerNode THEN [s \in init |-> TRUE]
                              ELSE EmptyMap]

DoAddSink == \E n \in Loggers, s \in Sinks : AddSink(n, s)
DoRemoveSink == \E n \in Loggers, s \in Sinks : RemoveSink(n, s)
DoSetSinkEnabled == \E n \in Loggers, s \in Sinks, b \in BOOLEAN : SetSinkEnabled(n, s, b)
DoSinkEnabled == \E n \in Loggers, s \in Sinks : SinkEnabled(n, s)
DoSetLevel ==
    \E n \in Loggers, l \in ThresholdInputs :
        /\ version = "Logger" => n = LoggerNode
        /\ SetLevel(n, l)
\* A failing sink is exercised with the producers that leave the buffer alone.
DoMessage ==
    \E n \in Loggers, level \in MessageLevels, p \in Producers, bad \in FailingInputs :
        /\ bad # {} => p.kind # "writer"
        /\ Message(n, level, p, bad)
DoLoggerAddSink == \E s \in Sinks : LoggerAddSink(s)
DoLoggerRemoveSink == \E s \in Sinks : LoggerRemoveSink(s)
DoLoggerEmit ==
    \E level \in MessageLevels, p \in Producers, bad \in FailingInputs :
        LoggerEmit(level, p, bad)

Next ==
    \/ DoAddSink
    \/ DoRemoveSink
    \/ DoSetSinkEnabled
    \/ DoSinkEnabled
    \/ DoSetLevel
    \/ DoMessage
    \/ DoLoggerAddSink
    \/ DoLoggerRemoveSink
    \/ DoLoggerEmit
    \/ Return

Spec == Init /\ [][Next]_vars

----------------------------------------------------------------------------
\* The tree alone: sink maps change on any node, results are not looked at.
\* A call that leaves the maps as they are is a stuttering step here and is
\* left out.
InitTree ==
    /\ InitCommon
    /\ version = "SinkDriver"
    /\ m_sinks = [n \in Nodes |-> EmptyMap]

TreeAddSink ==
    \E n \in Nodes, s \in Sinks :
        /\ ~(s \in DOMAIN m_sinks[n] /\ m_sinks[n][s])
        /\ add_sink(n, s)
        /\ UNCHANGED <<sinkVars, version, m_level, buffer, call, ret, em, mtVars>>
TreeRemoveSink ==
    \E n \in Nodes, s \in Sinks :
        /\ s \in DOMAIN m_sinks[n]
        /\ remove_sink(n, s)
        /\ UNCHANGED <<sinkVars, version, m_level, buffer, call, ret, em, mtVars>>
TreeSetSinkEnabled ==
    \E n \in Nodes, s \in Sinks, b \in BOOLEAN :
        /\ s \in DOMAIN m_sinks[n] /\ m_sinks[n][s] # b
        /\ set_sink_enabled(n, s, b)
        /\ UNCHANGED <<sinkVars, version, m_level, buffer, call, ret, em, mtVars>>

NextTree == TreeAddSink \/ TreeRemoveSink \/ TreeSetSinkEnabled

SpecTree == InitTree /\ [][NextTree]_vars

\* The tree with the nodes passing the same two sinks to their drivers: every
\* node can come to hold a sink that another node holds.
SharedSinks == {1, 2}

SharedAddSink ==
    \E n \in Nodes, s \in SharedSinks :
        /\ ~(s \in DOMAIN m_sinks[n] /\ m_sinks[n][s])
        /\ add_sink(n, s)
        /\ UNCHANGED <<sinkVars, version, m_level, buffer, call, ret, em, mtVars>>
SharedRemoveSink ==
    \E n \in Nodes, s \in SharedSinks :
        /\ s \in DOMAIN m_sinks[n]
        /\ remove_sink(n, s)
        /\ UNCHANGED <<sinkVars, version, m_level, buffer, call, ret, em, mtVars>>
SharedSetSinkEnabled ==
    \E n \in Nodes, s \in SharedSinks, b \in BOOLEAN :
        /\ s \in DOMAIN m_sinks[n] /\ m_sinks[n][s] # b
        /\ set_sink_enabled(n, s, b)
        /\ UNCHANGED <<sinkVars, version, m_level, buffer, call, ret, em, mtVars>>

NextShared == SharedAddSink \/ SharedRemoveSink \/ SharedSetSinkEnabled

SpecShared == InitTree /\ [][NextShared]_vars

----------------------------------------------------------------------------
\* Multi-threaded driver: SinkDriver<Logger, MultiThreadedPolicy<...>> wraps
\* the single-threaded driver; every operation constructs a lock on m_mutex
\* and then calls the wrapped operation.  All drivers and all threads use the
\* one function-static buffer of buffer().

\* set_sink_enabled constructs a ReadLock.
LockOfToggleShared(op) ==
    IF op \in {"add_sink", "remove_sink"} THEN "write" ELSE "read"

\* remove_sink constructs a ReadLock.
LockOfRemoveShared(op) ==
    IF op \in {"add_sink", "set_sink_enabled"} THEN "write" ELSE "read"

\* Which lock the operation constructs: WriteLock or ReadLock.
LockOf(op) ==
    IF op \in {"add_sink", "remove_sink", "set_sink_enabled"} THEN "write"
    ELSE "read"

\* The mutex stays locked when the lock object goes away.
ReleasedNever(l, t) == l

\* Every lock is exclusive: a reader waits for the other readers too.
CanLockExclusive(l, kind) == l.writer = 0 /\ l.readers = {}

\* Only shared ownership is given up: a writer keeps the mutex.
ReleasedReadersOnly(l, t) == [l EXCEPT !.readers = @ \ {t}]

\* A shared lock is granted while no writer holds the mutex; an exclusive lock
\* while nobody holds it.
CanLock(l, kind) ==
    IF kind = "write" THEN l.writer = 0 /\ l.readers = {}
    ELSE l.writer = 0

Locked(l, kind, t) ==
    IF kind = "write" THEN [l EXCEPT !.writer = t]
    ELSE [l EXCEPT !.readers = @ \cup {t}]

Released(l, t) ==
    [writer |-> IF l.writer = t THEN 0 ELSE l.writer, readers |-> l.readers \ {t}]

MTOps == {"add_sink", "remove_sink", "set_sink_enabled", "sink_enabled"}

\* The sink whose pattern is under study, and what an emission has seen of
\* it: nothing yet, or a pattern that is neither the old nor the new one.
PatternSink == 1
Unread == <<"-">>
Torn == <<"?">>

\* The node whose driver the threads share, and the sinks they pass to it.
MTNodes == {1}
MTSinks == {1, 2}

\* A thread enters an operation of the driver of node n.
MTCall(t, n, op, s, b) ==
    /\ pc[t] = "idle"
    /\ op = "set_sink_enabled" \/ b = TRUE
    /\ pc' = [pc EXCEPT ![t] = "lock"]
    /\ th' = [th EXCEPT ![t] = [op |-> op, node |-> n, sink |-> s, enabled |-> b,
                                 ret |-> FALSE]]
    /\ UNCHANGED <<sinkVars, version, m_sinks, m_level, effective, buffer, call, ret, em, lock>>

MTCallMessage(t, n, level, p) ==
    /\ pc[t] = "idle"
    /\ Len(buffer) < MaxBuf
    /\ pc' = [pc EXCEPT ![t] = "lock"]
    /\ th' = [th EXCEPT ![t] = [op |-> "message", node |-> n, level |-> level,
                                 producer |-> p, todo |-> <<>>, rec |-> <<>>,
                                 seen |-> Unread, raised |-> FALSE]]
    /\ UNCHANGED <<sinkVars, version, m_sinks, m_level, effective, buffer, call, ret, em, lock>>

\* WriteLock lock(m_mutex) / ReadLock lock(m_mutex)
MTLock(t) ==
    /\ pc[t] = "lock"
    /\ CanLock(lock[th[t].node], LockOf(th[t].op))
    /\ lock' = [lock EXCEPT ![th[t].node] = Locked(@, LockOf(th[t].op), t)]
    /\ pc' = [pc EXCEPT ![t] = IF th[t].op = "message" THEN "level" ELSE "body"]
    /\ UNCHANGED <<sinkVars, version, m_sinks, m_level, effective, buffer, call, ret, em, th>>

\* The wrapped operation of the single-threaded driver, under the lock.
MTBody(t) ==
    /\ pc[t] = "body"
    /\ LET n == th[t].node
           s == th[t].sink
       IN  \/ /\ th[t].op = "add_sink"
              /\ add_sink(n, s)
              /\ th' = [th EXCEPT ![t].ret = Inserted(m_sinks[n], s)]
           \/ /\ th[t].op = "remove_sink"
              /\ remove_sink(n, s)
              /\ th' = [th EXCEPT ![t].ret = Erased(m_sinks[n], s)]
           \/ /\ th[t].op = "set_sink_enabled"
              /\ set_sink_enabled(n, s, th[t].enabled)
              /\ th' = [th EXCEPT ![t].ret = (s \in DOMAIN m_sinks[n])]
           \/ /\ th[t].op = "sink_enabled"
              /\ th' = [th EXCEPT ![t].ret = sink_enabled(m_sinks[n], s)]
              /\ UNCHANGED <<m_sinks, effective>>
    /\ pc' = [pc EXCEPT ![t] = "unlock"]
    /\ UNCHANGED <<sinkVars, version, m_level, buffer, call, ret, em, lock>>

\* if (static_cast<Level>(logger.m_level) < level) return;  then the loop
\* starts at the beginning of the map.
MTLevel(t) ==
    /\ pc[t] = "level"
    /\ LET n == th[t].node
       IN  IF ~Admits(m_level[n], th[t].level)
           THEN /\ pc' = [pc EXCEPT ![t] = "unlock"]
                /\ th' = th
           ELSE /\ pc' = [pc EXCEPT ![t] = "loop"]
                /\ \E order \in Orders(DOMAIN m_sinks[n]) :
                      th' = [th EXCEPT ![t].todo = order]
    /\ UNCHANGED <<sinkVars, version, m_sinks, m_level, effective, buffer, call, ret, em, lock>>

\* The sinks of the iteration that are still to come and are enabled.
RECURSIVE SkipDisabled(_, _)
SkipDisabled(ms, todo) ==
    IF todo = <<>> THEN <<>>
    ELSE IF Head(todo) \in DOMAIN ms /\ Enabled(ms, Head(todo)) THEN todo
    ELSE SkipDisabled(ms, Tail(todo))

\* Advance to the next enabled sink and invoke the callback for it: the
\* callback appends the bytes of its thread's message to the shared buffer,
\* or throws before it has written any.
MTLoop(t) ==
    /\ pc[t] = "loop"
    /\ LET n == th[t].node
           p == th[t].producer
           rest == SkipDisabled(m_sinks[n], th[t].todo)
       IN  IF rest = <<>>
           THEN /\ pc' = [pc EXCEPT ![t] = "unlock"]
                /\ th' = [th EXCEPT ![t].todo = <<>>]
                /\ buffer' = buffer
           ELSE IF p.throws
           THEN /\ pc' = [pc EXCEPT ![t] = "unlock"]
                /\ th' = [th EXCEPT ![t].todo = rest, ![t].raised = TRUE]
                /\ buffer' = buffer
           ELSE /\ pc' = [pc EXCEPT ![t] = "sink"]
                /\ th' = [th EXCEPT ![t].todo = rest]
                /\ buffer' = Append(buffer, Token(t, 1))
    /\ UNCHANGED <<sinkVars, version, m_sinks, m_level, effective, call, ret, em, lock>>

\* The pattern a sink reads while it renders.  Sink::set_pattern takes no
\* lock: a read made while another thread is writing the pattern is a data
\* race, and gives the old pattern, the new one or a mixture of both.
ObservedPattern(s) ==
    IF s # PatternSink THEN {Unread}
    ELSE {m_pattern.source}
         \cup UNION {{th[u].pattern, Torn} : u \in {v \in Threads : pc[v] = "pattern"}}

\* sink.first->message(buffer, ...): the sink is handed the shared buffer as
\* it is now and renders through its pattern.
MTSink(t) ==
    /\ pc[t] = "sink"
    /\ \E seen \in ObservedPattern(Head(th[t].todo)) :
          th' = [th EXCEPT ![t].rec = buffer, ![t].seen = seen]
    /\ pc' = [pc EXCEPT ![t] = "reset"]
    /\ UNCHANGED <<sinkVars, version, m_sinks, m_level, effective, buffer, call, ret, em, lock>>

\* buffer.str(std::basic_string<CharType>{});
MTReset(t) ==
    /\ pc[t] = "reset"
    /\ buffer' = <<>>
    /\ th' = [th EXCEPT ![t].todo = Tail(@), ![t].rec = <<>>, ![t].seen = Unread]
    /\ pc' = [pc EXCEPT ![t] = "loop"]
    /\ UNCHANGED <<sinkVars, version, m_sinks, m_level, effective, call, ret, em, lock>>

\* The lock object goes out of scope: on return, or while an exception of
\* the callback unwinds the stack.
MTUnlock(t) ==
    /\ pc[t] = "unlock"
    /\ lock' = [lock EXCEPT ![th[t].node] = Released(@, t)]
    /\ pc' = [pc EXCEPT ![t] = "idle"]
    /\ th' = [th EXCEPT ![t] = Idle]
    /\ UNCHANGED <<sinkVars, version, m_sinks, m_level, effective, buffer, call, ret, em>>

MTLevels == {Info, Debug}
MTProducers == {p \in Producers : p.kind = "writer" /\ ~p.partial}

InitMT ==
    /\ InitCore
    /\ m_pattern = NoPattern
    /\ version = "SinkDriver"
    /\ \E init \in [MTNodes -> SUBSET MTSinks] :
          /\ m_sinks = [n \in Nodes |->
                           IF n \in MTNodes THEN [s \in init[n] |-> TRUE] ELSE EmptyMap]
          /\ effective = update_effective_sinks(m_sinks, [n \in Nodes |-> EmptyMap],
                                                <<1>>)

DoMTCall ==
    \E t \in Threads, n \in MTNodes, op \in MTOps, s \in MTSinks, b \in BOOLEAN :
        MTCall(t, n, op, s, b)
DoMTCallMessage ==
    \E t \in Threads, n \in MTNodes, level \in MTLevels, p \in MTProducers :
        MTCallMessage(t, n, level, p)
DoMTLock == \E t \in Threads : MTLock(t)
DoMTBody == \E t \in Threads : MTBody(t)
DoMTLevel == \E t \in Threads : MTLevel(t)
DoMTLoop == \E t \in Threads : MTLoop(t)
DoMTSink == \E t \in Threads : MTSink(t)
DoMTReset == \E t \in Threads : MTReset(t)
DoMTUnlock == \E t \in Threads : MTUnlock(t)

NextMT ==
    \/ DoMTCall
    \/ DoMTCallMessage
    \/ DoMTLock
    \/ DoMTBody
    \/ DoMTLevel
    \/ DoMTLoop
    \/ DoMTSink
    \/ DoMTReset
    \/ DoMTUnlock

SpecMT == InitMT /\ [][NextMT]_vars

----------------------------------------------------------------------------
\* Patterns.  A string is a sequence of characters.  The pattern compiler is
\* the one of section 4.2 of the design description: "{" opens a placeholder,
\* the next "}" closes it, everything else is literal text.
Placeholders ==
    {<<"c", "a", "t", "e", "g", "o", "r", "y">>,
     <<"l", "e", "v", "e", "l">>,
     <<"f", "i", "l", "e">>,
     <<"l", "i", "n", "e">>,
     <<"f", "u", "n", "c", "t", "i", "o", "n">>,
     <<"t", "h", "r", "e", "a", "d">>,
     <<"t", "i", "m", "e", "s", "t", "a", "m", "p">>,
     <<"m", "e", "s", "s", "a", "g", "e">>}

\* Default display names of the severities.
DefaultLevelName(l) ==
    CASE l = Fatal -> <<"F", "a", "t", "a", "l">>
      [] l = Error -> <<"E", "r", "r", "o", "r">>
      [] l = Warning -> <<"W", "a", "r", "n", "i", "n", "g">>
      [] l = Info -> <<"I", "n", "f", "o">>
      [] l = Debug -> <<"D", "e", "b", "u", "g">>
      [] OTHER -> <<"T", "r", "a", "c", "e">>

\* Any name between the delimiters is taken for a placeholder.
RecognizedAny(name) == TRUE

Recognized(name) == name \in Placeholders

\* Index of the first occurrence of character c in str, 0 if there is none.
RECURSIVE IndexOf(_, _, _)
IndexOf(str, c, i) ==
    IF i > Len(str) THEN 0
    ELSE IF str[i] = c THEN i
    ELSE IndexOf(str, c, i + 1)

\* The pending literal span is thrown away.
WithLiteralDropped(toks, lit) == toks

\* The tokens so far, with the pending literal span (if any) closed.
WithLiteral(toks, lit) ==
    IF lit = <<>> THEN toks ELSE Append(toks, [kind |-> "literal", text |-> lit])

\* Scan the rest of the pattern string.
RECURSIVE Scan(_, _, _)
Scan(rest, lit, toks) ==
    IF rest = <<>> THEN [ok |-> TRUE, tokens |-> WithLiteral(toks, lit)]
    ELSE IF Head(rest) = "{"
    THEN LET close == IndexOf(rest, "}", 2)
             name == SubSeq(rest, 2, close - 1)
         IN  IF close = 0 THEN [ok |-> FALSE, error |-> "unterminated"]
             ELSE IF ~Recognized(name)
             THEN [ok |-> FALSE, error |-> "unrecognized"]
             ELSE Scan(SubSeq(rest, close + 1, Len(rest)), <<>>,
                       Append(WithLiteral(toks, lit), [kind |-> "field", name |-> name]))
    ELSE Scan(Tail(rest), Append(lit, Head(rest)), toks)

\* compile(patternString)
compile(str) == Scan(str, <<>>, <<>>)

Digits == <<"0", "1", "2", "3", "4", "5", "6", "7", "8", "9">>

\* A line number as decimal digits.
RECURSIVE Decimal(_)
Decimal(n) ==
    IF n < 10 THEN <<Digits[n + 1]>>
    ELSE Decimal(n \div 10) \o <<Digits[(n % 10) + 1]>>

\* The level of a record as displayed: the override if there is one.
LevelName(levels, l) ==
    IF l \in DOMAIN levels THEN levels[l] ELSE DefaultLevelName(l)

\* The text a placeholder stands for in a record.
FieldText(levels, name, record) ==
    CASE name = <<"l", "e", "v", "e", "l">> -> LevelName(levels, record.level)
      [] name = <<"l", "i", "n", "e">> -> Decimal(record.line)
      [] name = <<"c", "a", "t", "e", "g", "o", "r", "y">> -> record.category
      [] name = <<"m", "e", "s", "s", "a", "g", "e">> -> record.message
      [] name = <<"f", "i", "l", "e">> -> record.file
      [] name = <<"f", "u", "n", "c", "t", "i", "o", "n">> -> record.function
      [] name = <<"t", "h", "r", "e", "a", "d">> -> record.thread
      [] name = <<"t", "i", "m", "e", "s", "t", "a", "m", "p">> -> record.timestamp

\* Every placeholder of the token sequence can be resolved from a record.
Renderable(tokens) ==
    \A i \in 1..Len(tokens) :
        tokens[i].kind = "field" => tokens[i].name \in Placeholders

\* render(buffer, record): the text appended to the buffer.
RECURSIVE render(_, _, _)
render(tokens, levels, record) ==
    IF tokens = <<>> THEN <<>>
    ELSE LET tok == Head(tokens)
         IN  (IF tok.kind = "literal" THEN tok.text
              ELSE FieldText(levels, tok.name, record))
             \o render(Tail(tokens), levels, record)

\* Inputs of the pattern operations.
MaxPat == 3          \* length of the pattern strings enumerated exhaustively
MaxWrites == 2       \* writes and flushes the destination stream takes

RECURSIVE StringsOf(_, _)
StringsOf(alphabet, n) ==
    IF n = 0 THEN {<<>>}
    ELSE LET shorter == StringsOf(alphabet, n - 1)
         IN  shorter \cup {Append(s, c) : s \in {x \in shorter : Len(x) = n - 1},
                                           c \in alphabet}

ExamplePattern ==
    <<"[", "{", "l", "e", "v", "e", "l", "}", "]", " ", "{", "c", "a", "t", "e", "g", "o", "r", "y", "}", ":", " ", "{", "m", "e", "s", "s", "a", "g", "e", "}">>

NamedPatterns ==
    {ExamplePattern,
     <<"{", "l", "e", "v", "e", "l", "}">>,
     <<"{", "l", "i", "n", "e", "}", "{", "m", "e", "s", "s", "a", "g", "e", "}">>,
     <<"a", "{", "f", "i", "l", "e", "}", ":", "{", "f", "u", "n", "c", "t", "i", "o", "n", "}", "@", "{", "t", "h", "r", "e", "a", "d", "}", " ", "{", "t", "i", "m", "e", "s", "t", "a", "m", "p", "}", "b">>,
     <<"{", "b", "o", "g", "u", "s", "}">>,
     <<"{", "l", "e", "v", "e", "l">>}

PatternInputs == StringsOf({"{", "}", "x"}, MaxPat) \cup NamedPatterns

InfoOverride == [l \in {Info} |-> <<"I", "N", "F", "O">>]
LevelInputs ==
    {NoLevels, InfoOverride,
     [l \in {Error, Info} |-> IF l = Error THEN <<"E">> ELSE <<"I">>]}

ExampleRecord ==
    [level |-> Info, category |-> <<"n", "e", "t">>, message |-> <<"u", "p">>, file |-> <<"m", ".", "c">>,
     line |-> 42, function |-> <<"f">>, thread |-> <<"1">>, timestamp |-> <<"t", "0">>]

RecordInputs ==
    {ExampleRecord,
     [level |-> Error, category |-> <<>>, message |-> <<"{", "x", "}">>, file |-> <<"a">>,
      line |-> 7, function |-> <<"g">>, thread |-> <<"2">>, timestamp |-> <<"t", "1">>],
     [level |-> Trace, category |-> <<"d", "b">>, message |-> <<"}">>, file |-> <<"b">>,
      line |-> 105, function |-> <<"h">>, thread |-> <<"3">>, timestamp |-> <<"t", "2">>]}

----------------------------------------------------------------------------
\* The pattern of one sink: set_pattern, set_levels and format.
coreVars == <<version, m_sinks, m_level, effective, call, ret, em, pc, th, lock>>

\* Pattern::set_pattern as designed: the compiled tokens replace the old ones,
\* a pattern error leaves the pattern as it was.
set_pattern(pat, str) ==
    LET r == compile(str)
    IN  IF r.ok THEN [pat EXCEPT !.source = str, !.tokens = r.tokens] ELSE pat

set_levels(pat, levels) == [pat EXCEPT !.levels = levels]

\* Sink::set_pattern
SetPattern(str) ==
    /\ scall = NoCall
    /\ m_pattern' = set_pattern(m_pattern, str)
    /\ scall' = [op |-> "set_pattern", pattern |-> str,
                 error |-> IF compile(str).ok THEN "none" ELSE compile(str).error]
    /\ UNCHANGED <<coreVars, buffer, m_ostream>>

\* Sink::set_levels
SetLevels(levels) ==
    /\ scall = NoCall
    /\ m_pattern' = set_levels(m_pattern, levels)
    /\ scall' = [op |-> "set_levels", levels |-> levels, error |-> "none"]
    /\ UNCHANGED <<coreVars, buffer, m_ostream>>

\* Sink::format: render the record through the pattern.
Format(record) ==
    /\ scall = NoCall
    /\ scall' = IF Renderable(m_pattern.tokens)
                THEN [op |-> "format", record |-> record, error |-> "none",
                      out |-> render(m_pattern.tokens, m_pattern.levels, record)]
                ELSE [op |-> "format", record |-> record, error |-> "render",
                      out |-> <<>>]
    /\ UNCHANGED <<coreVars, buffer, m_pattern, m_ostream>>

SinkReturn ==
    /\ scall # NoCall
    /\ scall' = NoCall
    /\ UNCHANGED <<coreVars, buffer, m_pattern, m_ostream>>

InitPattern ==
    /\ InitCommon
    /\ version = "SinkDriver"
    /\ m_sinks = [n \in Nodes |-> EmptyMap]

DoSetPattern == \E str \in PatternInputs : SetPattern(str)
DoSetLevels == \E levels \in LevelInputs : SetLevels(levels)
DoFormat == \E record \in RecordInputs : Format(record)

NextPattern ==
    \/ DoSetPattern
    \/ DoSetLevels
    \/ DoFormat
    \/ SinkReturn

SpecPattern == InitPattern /\ [][NextPattern]_vars

----------------------------------------------------------------------------
\* The stream sink: OStreamSink::message and OStreamSink::flush.

\* The whole buffer is written, whatever it held before the call.
ostream_message_whole(buf, pat, record) ==
    LET formatted == buf \o render(pat.tokens, pat.levels, record)
        terminated == Append(formatted, "\n")
    IN  [written |-> terminated, buffer |-> SubSeq(terminated, 1, Len(buf))]

\* The buffer is not cut back: the rendered line stays in it.
ostream_message_unresized(buf, pat, record) ==
    LET orig_size == Len(buf)
        formatted == buf \o render(pat.tokens, pat.levels, record)
        terminated == Append(formatted, "\n")
    IN  [written |-> SubSeq(terminated, orig_size + 1, Len(terminated)),
         buffer |-> terminated]

\* orig_size = buffer.size(); format(buffer, record); push_back('\n');
\* write(begin + orig_size, size - orig_size); resize(orig_size)
ostream_message(buf, pat, record) ==
    LET orig_size == Len(buf)
        formatted == buf \o render(pat.tokens, pat.levels, record)
        terminated == Append(formatted, "\n")
    IN  [written |-> SubSeq(terminated, orig_size + 1, Len(terminated)),
         buffer |-> SubSeq(terminated, 1, orig_size)]

\* What the caller left in the buffer it passes to the sink.
BufferInputs == {<<>>, <<"u", "p">>}

OStreamMessage(record, buf) ==
    /\ scall = NoCall
    /\ Len(m_ostream.writes) < MaxWrites
    /\ LET r == ostream_message(buf, m_pattern, record)
       IN  /\ m_ostream' = [m_ostream EXCEPT !.writes = Append(@, r.written)]
           /\ buffer' = r.buffer
    /\ scall' = [op |-> "message", record |-> record, buffer |-> buf, error |-> "none"]
    /\ UNCHANGED <<coreVars, m_pattern>>

\* m_ostream.flush()
OStreamFlush ==
    /\ scall = NoCall
    /\ m_ostream.flushes < MaxWrites
    /\ m_ostream' = [m_ostream EXCEPT !.flushes = @ + 1]
    /\ scall' = [op |-> "flush", error |-> "none"]
    /\ UNCHANGED <<coreVars, buffer, m_pattern>>

\* OStreamSink(ostream, pattern, levels): the constructor compiled a pattern.
InitOStream ==
    /\ InitCore
    /\ effective = [n \in Nodes |-> EmptyMap]
    /\ version = "SinkDriver"
    /\ m_sinks = [n \in Nodes |-> EmptyMap]
    /\ \E str \in NamedPatterns, levels \in LevelInputs :
          /\ compile(str).ok
          /\ m_pattern = set_levels(set_pattern(NoPattern, str), levels)

DoOStreamMessage ==
    \E record \in RecordInputs, buf \in BufferInputs : OStreamMessage(record, buf)

NextOStream ==
    \/ DoOStreamMessage
    \/ OStreamFlush
    \/ SinkReturn

SpecOStream == InitOStream /\ [][NextOStream]_vars

----------------------------------------------------------------------------
\* Threads emitting through a driver while a thread replaces the pattern of
\* one of its sinks.
MTPatternInputs == {ExamplePattern, <<"{", "l", "e", "v", "e", "l", "}">>}

\* Sink::set_pattern is entered: m_pattern.set_pattern(pattern) starts writing
\* the pattern object, with no lock of any kind.
MTSetPattern(t, str) ==
    /\ pc[t] = "idle"
    /\ str # m_pattern.source
    /\ pc' = [pc EXCEPT ![t] = "pattern"]
    /\ th' = [th EXCEPT ![t] = [op |-> "set_pattern", node |-> 0, pattern |-> str]]
    /\ UNCHANGED <<version, m_sinks, m_level, effective, buffer, call, ret, em, lock,
                   sinkVars>>

\* The write of the pattern object is complete and set_pattern returns.
MTPatternDone(t) ==
    /\ pc[t] = "pattern"
    /\ m_pattern' = set_pattern(m_pattern, th[t].pattern)
    /\ pc' = [pc EXCEPT ![t] = "idle"]
    /\ th' = [th EXCEPT ![t] = Idle]
    /\ UNCHANGED <<version, m_sinks, m_level, effective, buffer, call, ret, em, lock,
                   m_ostream, scall>>

InitMTPattern ==
    /\ InitCore
    /\ version = "SinkDriver"
    /\ m_pattern = set_pattern(NoPattern, ExamplePattern)
    /\ \E init \in SUBSET MTSinks :
          /\ PatternSink \in init
          /\ m_sinks = [n \in Nodes |->
                           IF n \in MTNodes THEN [s \in init |-> TRUE] ELSE EmptyMap]
          /\ effective = update_effective_sinks(m_sinks, [n \in Nodes |-> EmptyMap],
                                                <<1>>)

DoMTSetPattern == \E t \in Threads, str \in MTPatternInputs : MTSetPattern(t, str)
DoMTPatternDone == \E t \in Threads : MTPatternDone(t)

NextMTPattern ==
    \/ DoMTCallMessage
    \/ DoMTLock
    \/ DoMTLevel
    \/ DoMTLoop
    \/ DoMTSink
    \/ DoMTReset
    \/ DoMTUnlock
    \/ DoMTSetPattern
    \/ DoMTPatternDone

SpecMTPattern == InitMTPattern /\ [][NextMTPattern]_vars

----------------------------------------------------------------------------
\* Two multi-threaded drivers, one per node, each with its own m_mutex.
\* buffer() is a member function of the class template with a function-static
\* FormatBuffer: there is one buffer for the drivers of all nodes.
BufferNodes == {1, 2}

\* Node 1 holds sink 1 and node 2 holds sink 2, both enabled.
InitMTNodes ==
    /\ InitCore
    /\ m_pattern = NoPattern
    /\ version = "SinkDriver"
    /\ m_sinks = [n \in Nodes |->
                     IF n \in BufferNodes THEN [s \in {n} |-> TRUE] ELSE EmptyMap]
    /\ effective = update_effective_sinks(m_sinks, [n \in Nodes |-> EmptyMap], <<1>>)

DoMTMessageAt ==
    \E t \in Threads, n \in BufferNodes, level \in MTLevels, p \in MTProducers :
        MTCallMessage(t, n, level, p)

NextMTNodes ==
    \/ DoMTMessageAt
    \/ DoMTLock
    \/ DoMTLevel
    \/ DoMTLoop
    \/ DoMTSink
    \/ DoMTReset
    \/ DoMTUnlock

SpecMTNodes == InitMTNodes /\ [][NextMTNodes]_vars

----------------------------------------------------------------------------
\* The multi-threaded driver with the scheduling it runs under: a thread
\* that is inside an operation and past the construction of its lock keeps
\* running (no operation suspends; producers and sinks return or throw).
\* Nothing is assumed here about new calls or about the order in which the
\* mutex serves its waiters.
ThreadStep(t) ==
    MTBody(t) \/ MTLevel(t) \/ MTLoop(t) \/ MTSink(t) \/ MTReset(t) \/ MTUnlock(t)

FairnessMT == \A t \in Threads : WF_vars(ThreadStep(t))

\* The driver of node 1 holds one enabled sink; the threads add, remove,
\* disable and query that sink and emit at a level the threshold admits.
InitMTFair ==
    /\ InitCore
    /\ m_pattern = NoPattern
    /\ version = "SinkDriver"
    /\ m_sinks = [n \in Nodes |->
                     IF n \in MTNodes THEN [s \in {PatternSink} |-> TRUE] ELSE EmptyMap]
    /\ effective = update_effective_sinks(m_sinks, [n \in Nodes |-> EmptyMap], <<1>>)

DoMTCallFair ==
    \E t \in Threads, n \in MTNodes, op \in MTOps :
        MTCall(t, n, op, PatternSink, op # "set_sink_enabled")
DoMTMessageFair ==
    \E t \in Threads, n \in MTNodes, p \in MTProducers :
        MTCallMessage(t, n, Info, p)

NextMTFair ==
    \/ DoMTCallFair
    \/ DoMTMessageFair
    \/ DoMTLock
    \/ DoMTBody
    \/ DoMTLevel
    \/ DoMTLoop
    \/ DoMTSink
    \/ DoMTReset
    \/ DoMTUnlock

SpecMTFair == InitMTFair /\ [][NextMTFair]_vars /\ FairnessMT

----------------------------------------------------------------------------
\* Properties.

\* Level L is at least as critical as threshold T.
AtLeastAsCritical(level, threshold) == level <= threshold

OwnEnabled(n) == {s \in DOMAIN m_sinks[n] : m_sinks[n][s]}

\* The sink entries an emission at node n can reach, each with its owner: the
\* cached effective set, or the sinks held by the legacy Logger.
EntriesOf(n) ==
    IF version = "Logger" THEN [s \in DOMAIN m_sinks[n] |-> n] ELSE effective[n]

NoAdmittingEntry(n, level) ==
    \A s \in DOMAIN EntriesOf(n) :
        ~AtLeastAsCritical(level, m_level[EntriesOf(n)[s]])

Served == {s \in Sinks : em.delivered[s] # <<>>}

C2_ExactlyOnce ==
    (call.op = "message" /\ call.producer.kind # "plain" /\ ~em.raised
        /\ ~em.failed /\ Served # {}) =>
        /\ em.calls = 1
        /\ \A s1, s2 \in Served : em.delivered[s1] = em.delivered[s2]

\* The parent of every node, as constructed.
ParentOf == [n \in Nodes |-> IF n = 1 THEN 0 ELSE IF n = 4 THEN 2 ELSE 1]

\* The owner of sink s as seen from node n: the nearest node on the path from
\* n to the root that holds s enabled (0: none).
RECURSIVE NearestOwner(_, _)
NearestOwner(n, s) ==
    IF n = 0 THEN 0
    ELSE IF s \in OwnEnabled(n) THEN n
    ELSE NearestOwner(ParentOf[n], s)

C4_Inheritance ==
    \A s \in Sinks :
        (/\ call.op = "message"
         /\ version = "SinkDriver"
         /\ ~call.producer.throws
         /\ call.failing = {}
         /\ ParentOf[call.node] \in Loggers
         /\ DOMAIN m_sinks[call.node] = {}
         /\ s \in OwnEnabled(ParentOf[call.node])
         /\ m_level[ParentOf[call.node]] = Warning) =>
            /\ call.level = Error => s \in Served
            /\ call.level = Debug => s \notin Served

\* C5: every sink of the effective set of the call-site node is served if and
\* only if the threshold of the node recorded as its owner admits the level;
\* a sink the node holds enabled itself is owned by the node.
C5_OwnerGating ==
    (call.op = "message" /\ version = "SinkDriver" /\ ~call.producer.throws
        /\ call.failing = {}) =>
        \A s \in DOMAIN effective[call.node] :
            /\ s \in OwnEnabled(call.node) => effective[call.node][s] = call.node
            /\ s \in Served <=>
                  AtLeastAsCritical(call.level, m_level[effective[call.node][s]])

OwnBytes(t, bytes) == \A i \in 1..Len(bytes) : bytes[i][1] = t

\* C6: while an emitter is between its producer and the reset of the buffer,
\* the shared buffer holds bytes of its own call only, and so does the record
\* it hands to a sink.
C6_BufferIntegrity ==
    \A t \in Threads :
        /\ pc[t] \in {"sink", "reset"} => OwnBytes(t, buffer)
        /\ pc[t] = "reset" => OwnBytes(t, th[t].rec)

InMutation(t, n) ==
    /\ pc[t] \in {"body", "unlock"}
    /\ th[t].op \in {"add_sink", "remove_sink", "set_sink_enabled"}
    /\ th[t].node = n

InEmission(t, n) ==
    /\ pc[t] \in {"level", "loop", "sink", "reset"}
    /\ th[t].op = "message"
    /\ th[t].node = n

MutualExclusion ==
    \A n \in MTNodes, t \in Threads, u \in Threads :
        ~(InMutation(t, n) /\ InEmission(u, n))

\* C7: no thread is inside add_sink, remove_sink or set_sink_enabled of a
\* node while another is inside an emission on that node, and the sink map of
\* the node does not change between two steps of one emission.
C7_MutationExcludesEmission ==
    [][/\ MutualExclusion'
       /\ \A n \in MTNodes, t \in Threads :
             (InEmission(t, n) /\ InEmission(t, n)') => m_sinks'[n] = m_sinks[n]]_vars

\* A toggle holds the exclusive lock while an emission waits for the mutex.
C7_Witness ==
    \E t \in Threads, u \in Threads, n \in MTNodes :
        /\ InMutation(t, n) /\ th[t].op = "set_sink_enabled"
        /\ pc[u] = "lock" /\ th[u].op = "message" /\ th[u].node = n

\* C8: add_sink returns true iff the node did not hold the sink before the
\* call, and the node holds the sink (once) afterwards in both cases.
C8_AddSinkResult ==
    [][call'.op = "add_sink" =>
          /\ ret' = (call'.sink \notin DOMAIN m_sinks[call'.node])
          /\ Cardinality({x \in DOMAIN m_sinks'[call'.node] : x = call'.sink}) = 1]_vars

\* add_sink was called for a sink the node already held.
C8_Witness ==
    /\ call.op = "add_sink"
    /\ ~ret
    /\ call.sink \in DOMAIN m_sinks[call.node]

\* C9: remove_sink, set_sink_enabled and sink_enabled for a sink the node does
\* not hold return false, raise nothing and leave every sink map unchanged.
C9_UnknownSinkIsFalse ==
    [][(/\ call'.op \in {"remove_sink", "set_sink_enabled", "sink_enabled"}
        /\ call'.sink \notin DOMAIN m_sinks[call'.node]) =>
          /\ ret' = FALSE
          /\ ~em'.raised
          /\ m_sinks' = m_sinks]_vars

\* set_sink_enabled(sink, true) was called for a sink the node does not hold,
\* while it holds another one.
C9_Witness ==
    /\ call.op = "set_sink_enabled"
    /\ call.enabled
    /\ call.sink \notin DOMAIN m_sinks[call.node]
    /\ DOMAIN m_sinks[call.node] # {}

\* C10: set_sink_enabled(sink, b) on a held sink returns true, stores b and
\* changes no other flag; sink_enabled(sink) returns the stored flag, hence b
\* when it follows; an emission delivers nothing to a sink whose flag is
\* false.
C10_EnableRoundTrip ==
    [][/\ (/\ call'.op = "set_sink_enabled"
           /\ call'.sink \in DOMAIN m_sinks[call'.node]) =>
             /\ ret' = TRUE
             /\ DOMAIN m_sinks'[call'.node] = DOMAIN m_sinks[call'.node]
             /\ m_sinks'[call'.node][call'.sink] = call'.enabled
             /\ \A x \in DOMAIN m_sinks[call'.node] \ {call'.sink} :
                   m_sinks'[call'.node][x] = m_sinks[call'.node][x]
       /\ (call'.op = "sink_enabled" /\ call'.sink \in DOMAIN m_sinks[call'.node]) =>
             ret' = m_sinks[call'.node][call'.sink]
       /\ (call'.op = "message" /\ version = "SinkDriver") =>
             \A s \in DOMAIN m_sinks[call'.node] :
                 ~m_sinks[call'.node][s] => em'.delivered[s] = <<>>]_vars

\* An emission served one sink of a node and passed over a disabled one.
C10_Witness ==
    /\ call.op = "message"
    /\ version = "SinkDriver"
    /\ \E s \in DOMAIN m_sinks[call.node], x \in DOMAIN m_sinks[call.node] :
          /\ ~m_sinks[call.node][s]
          /\ x \in Served

\* The sinks an emission at node n iterates over and does not skip.
Candidates(n) ==
    IF version = "Logger" THEN DOMAIN m_sinks[n] ELSE OwnEnabled(n)

\* C11: every node starts with threshold Info, only set_level changes a
\* threshold (to its argument), and an emission at level L on a node whose
\* threshold is T at the start of the call serves the sinks it iterates over
\* if and only if L <= T in the order Fatal < ... < Trace.
C11_SeverityAdmission ==
    /\ \A n \in Nodes : m_level[n] = Info
    /\ [][(m_level' # m_level =>
              (/\ call'.op = "set_level"
               /\ m_level' = [m_level EXCEPT ![call'.node] = call'.level]))
          /\ ((call'.op = "message" /\ ~call'.producer.throws /\ call'.failing = {}) =>
                 (\A s \in Candidates(call'.node) :
                     (em'.delivered[s] # <<>>) <=>
                         AtLeastAsCritical(call'.level, m_level[call'.node])))]_vars

\* After the threshold was lowered to Warning, a message at Info (admitted by
\* the initial threshold) was refused on a node with a sink to serve.
C11_Witness ==
    /\ call.op = "message"
    /\ ~call.producer.throws
    /\ call.failing = {}
    /\ m_level[call.node] = Warning
    /\ call.level = Info
    /\ Candidates(call.node) # {}
    /\ Served = {}

\* C12: in an admitted emission whose producer does not raise, every sink the
\* call iterates over, other than the sinks whose message() failed, has
\* received the message when the call is over.
C12_IsolateAndContinue ==
    (/\ call.op = "message"
     /\ ~call.producer.throws
     /\ AtLeastAsCritical(call.level, m_level[call.node])) =>
        \A s \in Candidates(call.node) \ call.failing : s \in Served

\* C14: an admitted emission that returns normally has delivered exactly one
\* message to every sink it iterates over and none to any other sink, and a
\* step that delivers anything is the step of an emission call itself.
C14_SynchronousDelivery ==
    [][((/\ call'.op = "message"
         /\ ~em'.raised /\ ~em'.failed
         /\ AtLeastAsCritical(call'.level, m_level[call'.node])) =>
            (\A s \in Sinks :
                Len(em'.delivered[s]) =
                    IF s \in Candidates(call'.node) THEN 1 ELSE 0))
       /\ ((\E s \in Sinks : em'.delivered[s] # <<>>) =>
              (call = NoCall /\ call'.op = "message"))]_vars

\* An emission returned normally after serving every sink of a node that
\* holds all the sinks there are.
C14_Witness ==
    /\ call.op = "message"
    /\ ~em.raised /\ ~em.failed
    /\ Candidates(call.node) = Sinks
    /\ Served = Sinks

\* C18: an emission of the driver that serves sinks and returns normally
\* has reset the buffer exactly once.
C18_BufferResetOnce ==
    (/\ call.op = "message"
     /\ version = "SinkDriver"
     /\ ~em.raised /\ ~em.failed
     /\ Served # {}) =>
        em.resets = 1

\* C15: a message call on the stream sink appends one write to the
\* destination, made of the rendered record followed by one line terminator
\* and of nothing the buffer held before; it flushes nothing and hands the
\* buffer back as it got it.  flush() adds one flush and writes nothing.
\* Nothing else touches the destination.
C15_StreamSink ==
    [][(scall'.op = "message" =>
           (/\ m_ostream'.writes =
                  Append(m_ostream.writes,
                         Append(render(m_pattern.tokens, m_pattern.levels,
                                       scall'.record), "\n"))
            /\ m_ostream'.flushes = m_ostream.flushes
            /\ buffer' = scall'.buffer))
       /\ (scall'.op = "flush" =>
              (/\ m_ostream'.flushes = m_ostream.flushes + 1
               /\ m_ostream'.writes = m_ostream.writes))
       /\ (m_ostream' # m_ostream => scall'.op \in {"message", "flush"})]_vars

\* A second record was written, from a buffer that already held text.
C15_Witness ==
    /\ scall.op = "message"
    /\ scall.buffer # <<>>
    /\ Len(m_ostream.writes) = 2
    /\ m_ostream.flushes = 1

\* A pattern string is well formed when it splits into characters other than
\* "{" and placeholders "{name}" with a name of the fixed set.
RECURSIVE WellFormedFrom(_, _)
WellFormedFrom(str, i) ==
    \/ i > Len(str)
    \/ str[i] # "{" /\ WellFormedFrom(str, i + 1)
    \/ \E name \in Placeholders :
          /\ i + Len(name) + 1 <= Len(str)
          /\ SubSeq(str, i + 1, i + Len(name)) = name
          /\ str[i + Len(name) + 1] = "}"
          /\ WellFormedFrom(str, i + Len(name) + 2)

\* C16: set_pattern fails with a pattern error exactly for the strings that
\* are not well formed, and then leaves the pattern of the sink as it was;
\* otherwise the sink has the new pattern.  Rendering through the pattern a
\* sink has never fails.
C16_PatternErrors ==
    [][(scall'.op = "set_pattern" =>
           (/\ scall'.error # "none" <=> ~WellFormedFrom(scall'.pattern, 1)
            /\ scall'.error \in {"none", "unterminated", "unrecognized"}
            /\ scall'.error # "none" => m_pattern' = m_pattern
            /\ scall'.error = "none" => m_pattern'.source = scall'.pattern))
       /\ (scall'.op = "format" => scall'.error = "none")]_vars

\* A pattern with an unknown placeholder was refused by a sink that holds a
\* pattern with placeholders.
C16_Witness ==
    /\ scall.op = "set_pattern"
    /\ scall.error = "unrecognized"
    /\ m_pattern.source = ExamplePattern

\* The text of a well-formed pattern string with every "{name}" replaced by
\* the field of the record, read off the string itself.
RECURSIVE Substituted(_, _, _, _)
Substituted(str, levels, record, i) ==
    IF i > Len(str) THEN <<>>
    ELSE IF str[i] # "{"
    THEN <<str[i]>> \o Substituted(str, levels, record, i + 1)
    ELSE LET j == CHOOSE k \in (i + 1)..Len(str) :
                      /\ str[k] = "}"
                      /\ \A m \in (i + 1)..(k - 1) : str[m] # "}"
             name == SubSeq(str, i + 1, j - 1)
         IN  (IF name = <<"l", "e", "v", "e", "l">>
              THEN (IF record.level \in DOMAIN levels THEN levels[record.level]
                    ELSE DefaultLevelName(record.level))
              ELSE FieldText(levels, name, record))
             \o Substituted(str, levels, record, j + 1)

\* C17: the rendering of a record is the pattern string of the sink with its
\* literal text kept and every placeholder replaced by the field of the
\* record, the level by its override or else its default name; the example
\* of the design description renders "[INFO] net: up".
C17_PatternRendering ==
    scall.op = "format" =>
        /\ scall.out = Substituted(m_pattern.source, m_pattern.levels, scall.record, 1)
        /\ (/\ m_pattern.source = ExamplePattern
            /\ m_pattern.levels = InfoOverride
            /\ scall.record = ExampleRecord) =>
               scall.out = <<"[", "I", "N", "F", "O", "]", " ", "n", "e", "t", ":", " ", "u", "p">>

\* The example was rendered.
C17_Witness ==
    /\ scall.op = "format"
    /\ m_pattern.source = ExamplePattern
    /\ m_pattern.levels = InfoOverride
    /\ scall.record = ExampleRecord

\* The thread holds the mutex of node n, shared or exclusive.
HoldsLock(t, n) == lock[n].writer = t \/ t \in lock[n].readers

\* C13: an emission whose producer is invoked and raises a formatting error
\* leaves the loop at once with the error raised, on the way out of the call
\* it releases the lock it holds, and a thread that is outside any call holds
\* no lock.
C13_FormattingErrorsPropagate ==
    /\ \A t \in Threads : pc[t] = "idle" => \A n \in MTNodes : ~HoldsLock(t, n)
    /\ [][\A t \in Threads :
            /\ (/\ pc[t] = "loop" /\ pc'[t] # "loop"
                /\ th[t].producer.throws
                /\ SkipDisabled(m_sinks[th[t].node], th[t].todo) # <<>>) =>
                   (pc'[t] = "unlock" /\ th'[t].raised)
            /\ (pc[t] = "unlock" /\ th[t].op = "message" /\ pc'[t] # "unlock") =>
                   (pc'[t] = "idle" /\ \A n \in MTNodes : ~HoldsLock(t, n)')
            /\ pc'[t] = "idle" => \A n \in MTNodes : ~HoldsLock(t, n)']_vars

\* An emission is leaving with a formatting error, still holding the shared
\* lock, while another thread waits for the exclusive lock of the node.
C13_Witness ==
    \E t \in Threads, u \in Threads :
        /\ pc[t] = "unlock" /\ th[t].op = "message" /\ th[t].raised
        /\ HoldsLock(t, th[t].node)
        /\ pc[u] = "lock" /\ th[u].op = "add_sink" /\ th[u].node = th[t].node

\* C19: an emission whose level the threshold does not admit never holds the
\* mutex of the node and never has to wait for it.
C19_LockFreeDisabledPath ==
    \A t \in Threads :
        (/\ pc[t] # "idle"
         /\ th[t].op = "message"
         /\ ~AtLeastAsCritical(th[t].level, m_level[th[t].node])) =>
            /\ ~HoldsLock(t, th[t].node)
            /\ pc[t] = "lock" => CanLock(lock[th[t].node], "read")

\* C20: no thread is inside set_pattern while another is inside an emission,
\* and no emission renders through a pattern that is partly old and partly
\* new.
C20_AtomicPatternReplacement ==
    /\ \A t \in Threads, u \in Threads :
          ~(pc[t] = "pattern" /\ \E n \in MTNodes : InEmission(u, n))
    /\ \A t \in Threads : (pc[t] = "reset" => th[t].seen # Torn)

\* C21: an emission that waits for the mutex of a node is not held back by
\* the emissions that hold it: while a thread holds the lock shared, the
\* lock an emission asks for can be granted.
C21_EmittersShareLock ==
    \A t \in Threads, u \in Threads :
        (/\ t # u
         /\ pc[u] = "lock" /\ th[u].op = "message"
         /\ t \in lock[th[u].node].readers) =>
            CanLock(lock[th[u].node], LockOf(th[u].op))

\* Two threads are inside the sink iteration of the same node, both holding
\* its lock shared.
C21_Witness ==
    \E t \in Threads, u \in Threads, n \in MTNodes :
        /\ t # u
        /\ InEmission(t, n) /\ pc[t] \in {"loop", "sink", "reset"}
        /\ InEmission(u, n) /\ pc[u] \in {"loop", "sink", "reset"}
        /\ {t, u} \subseteq lock[n].readers

\* C22: an emission call, whether every sink succeeded or one failed, leaves
\* the membership and the enabled flag of every node as they were and has
\* invoked the message() of each sink at most once; the sink that failed was
\* invoked once and is still held with the flag it had.
C22_NoRetryNoSelfDisable ==
    [][call'.op = "message" =>
          /\ m_sinks' = m_sinks
          /\ effective' = effective
          /\ \A s \in Sinks :
                /\ em'.invoked[s] <= 1
                /\ em'.invoked[s] = 1 =>
                      (s \in DOMAIN m_sinks'[call'.node] /\
                       ((em'.delivered[s] = <<>>) <=> (em'.failed /\ s \in call'.failing)))]_vars

\* An emission has ended with the failure of a sink that was invoked once,
\* after another sink was served, and the failed sink is still held.
C22_Witness ==
    /\ call.op = "message"
    /\ em.failed
    /\ \E s \in call.failing, r \in Sinks :
          /\ r # s
          /\ em.invoked[s] = 1 /\ em.delivered[s] = <<>>
          /\ em.invoked[r] = 1 /\ em.delivered[r] # <<>>
          /\ s \in DOMAIN m_sinks[call.node]

\* a is a proper ancestor of b.
RECURSIVE Ancestor(_, _)
Ancestor(a, b) ==
    IF ParentOf[b] = 0 THEN FALSE
    ELSE ParentOf[b] = a \/ Ancestor(a, ParentOf[b])

Unrelated(a, b) == a # b /\ ~Ancestor(a, b) /\ ~Ancestor(b, a)

\* What node n keeps about sink s: absent, or held with its flag.
EntryOf(ms, n, s) == IF s \in DOMAIN ms[n] THEN <<"held", ms[n][s]>> ELSE <<"absent">>

\* What the effective set of node n says about sink s.
EffectiveOf(eff, n, s) == IF s \in DOMAIN eff[n] THEN <<"owner", eff[n][s]>> ELSE <<"none">>

\* The pairs of nodes neither of which is an ancestor of the other.
UnrelatedPairs == {q \in Nodes \X Nodes : Unrelated(q[1], q[2])}

\* C23: when node b holds sink s and an add_sink, remove_sink or
\* set_sink_enabled changes what node a keeps about s, <<a, b>> being a pair
\* of nodes unrelated in the tree, then what b keeps about s (membership and
\* flag) and what the effective set of b says about s are as before.
C23_SharedSinkIndependent ==
    [][\A q \in UnrelatedPairs, s \in Sinks :
          (/\ s \in DOMAIN m_sinks[q[2]]
           /\ EntryOf(m_sinks', q[1], s) # EntryOf(m_sinks, q[1], s)) =>
              /\ EntryOf(m_sinks', q[2], s) = EntryOf(m_sinks, q[2], s)
              /\ EffectiveOf(effective', q[2], s) = EffectiveOf(effective, q[2], s)]_vars

\* Two siblings hold the same sink, one enabled and one disabled, the root
\* holds it too: one sibling owns it, the other inherits it from the root.
C23_Witness ==
    \E a \in Nodes, b \in Nodes, s \in Sinks :
        /\ Unrelated(a, b)
        /\ s \in DOMAIN m_sinks[a] /\ m_sinks[a][s]
        /\ s \in DOMAIN m_sinks[b] /\ ~m_sinks[b][s]
        /\ EffectiveOf(effective, a, s) = <<"owner", a>>
        /\ EffectiveOf(effective, b, s) = <<"owner", 1>>

\* C24: under the synchronized policy remove_sink returns true exactly when
\* the node held the sink, and the sink is gone from the node when it
\* returns; at that moment no emission of another thread is inside the sink
\* iteration of the node, and every later write to a sink on behalf of the
\* node is to a sink the node holds at the time of the write.
C24_RemovalAtReturn ==
    [][\A t \in Threads :
          /\ (pc[t] = "body" /\ th[t].op = "remove_sink" /\ pc'[t] = "unlock") =>
                /\ th'[t].ret = (th[t].sink \in DOMAIN m_sinks[th[t].node])
                /\ th[t].sink \notin DOMAIN m_sinks'[th[t].node]
                /\ \A u \in Threads \ {t} : ~InEmission(u, th[t].node)
          /\ (pc[t] = "sink" /\ pc'[t] = "reset") =>
                /\ Head(th[t].todo) \in DOMAIN m_sinks[th[t].node]
                /\ m_sinks[th[t].node][Head(th[t].todo)]]_vars

\* A remove_sink has returned true while an emission of another thread on
\* the same node, which still holds another sink, waits for the lock.
C24_Witness ==
    \E t \in Threads, u \in Threads :
        /\ t # u
        /\ pc[t] = "unlock" /\ th[t].op = "remove_sink" /\ th[t].ret
        /\ th[t].sink \notin DOMAIN m_sinks[th[t].node]
        /\ DOMAIN m_sinks[th[t].node] # {}
        /\ pc[u] = "lock" /\ th[u].op = "message" /\ th[u].node = th[t].node

\* C25: an emission call whose level the threshold of the node admits, made
\* while the node has no enabled sink (it holds none, or every sink it holds
\* is disabled), does not invoke the producer and leaves the buffer as it
\* was.
C25_NoSinkNoEvaluation ==
    [][(/\ call'.op = "message"
        /\ AtLeastAsCritical(call'.level, m_level[call'.node])
        /\ OwnEnabled(call'.node) = {}) =>
           /\ em'.calls = 0
           /\ buffer' = buffer]_vars

\* C26: the format buffer is empty when an emission call of the driver
\* starts, whatever calls came before it on the thread.
C26_BufferEmptyBetweenCalls ==
    [][(call'.op = "message" /\ version = "SinkDriver") => buffer = <<>>]_vars

\* C27: while an emission on one node is about to hand the buffer to its
\* sink, the buffer holds no bytes of an emission that is in progress on
\* another node.
C27_NodesDoNotShareBuffer ==
    \A t \in Threads, u \in Threads :
        (/\ t # u
         /\ pc[t] = "sink"
         /\ pc[u] \in {"sink", "reset"}
         /\ th[t].node # th[u].node) =>
            \A i \in 1..Len(buffer) : buffer[i][1] # u

\* The locks thread t holds.
HeldBy(t) == {n \in Nodes : HoldsLock(t, n)}

\* A thread holds no lock outside its operations and while it waits, and
\* inside an operation it holds the lock of the node it works on and no
\* other, once and in one mode.
OneLockPerOperation ==
    \A t \in Threads :
        /\ pc[t] \in {"idle", "lock"} => HeldBy(t) = {}
        /\ pc[t] \notin {"idle", "lock"} =>
              /\ HeldBy(t) = {th[t].node}
              /\ (lock[th[t].node].writer = t) # (t \in lock[th[t].node].readers)
              /\ (lock[th[t].node].writer = t) <=> (LockOf(th[t].op) = "write")

\* A thread past the construction of its lock can always take its next step,
\* and a thread that waits for a lock waits for threads that are past theirs.
NeverStuck ==
    \A t \in Threads :
        /\ pc[t] \notin {"idle", "lock"} => ENABLED ThreadStep(t)
        /\ (pc[t] = "lock" /\ ~ENABLED MTLock(t)) =>
              \E u \in Threads \ {t} :
                  pc[u] \notin {"idle", "lock"} /\ HoldsLock(u, th[t].node)

\* The mutex is fair: no thread waits for it for ever.
FairLock == \A t \in Threads : []<>(pc[t] # "lock")

\* C28: every operation of the synchronized driver holds exactly one lock,
\* the one of its node, from the construction of the lock until it returns,
\* and none afterwards; no thread is ever stuck inside an operation; and
\* with a fair mutex every add_sink, remove_sink, set_sink_enabled,
\* sink_enabled and emission call that was started returns.
C28_DeadlockFreedom ==
    /\ [](OneLockPerOperation /\ NeverStuck)
    /\ FairLock => \A t \in Threads : (pc[t] # "idle") ~> (pc[t] = "idle")

\* An exclusive operation waits for the lock while an emission and a
\* sink_enabled query hold it shared.
C28_Witness ==
    \E t \in Threads, u \in Threads :
        /\ t # u
        /\ pc[t] = "lock" /\ th[t].op \in {"add_sink", "remove_sink", "set_sink_enabled"}
        /\ ~CanLock(lock[th[t].node], LockOf(th[t].op))
        /\ pc[u] \in {"loop", "sink", "reset", "body"}
        /\ th[u].op \in {"message", "sink_enabled"}
        /\ th[u].node = th[t].node
        /\ HoldsLock(u, th[u].node)

\* C29: when OStreamSink::message returns, the buffer it was handed has the
\* size it had on entry and holds the same characters.
C29_BufferAsFound ==
    [][scall'.op = "message" =>
          /\ Len(buffer') = Len(scall'.buffer)
          /\ \A i \in 1..Len(scall'.buffer) : buffer'[i] = scall'.buffer[i]]_vars

\* The sink was handed a buffer with text in it, wrote a line of more than
\* the terminator to the stream, and the buffer holds the text it held.
C29_Witness ==
    /\ scall.op = "message"
    /\ scall.buffer = <<"u", "p">>
    /\ buffer = <<"u", "p">>
    /\ Len(m_ostream.writes) = 1
    /\ Len(m_ostream.writes[1]) > 1

====
